---- MODULE Spec2Model ----
(***************************************************************************)
(* Model of package httpx (src/request.go): the five entry functions       *)
(* Get/Post/Put/Delete/Patch, performRequest, buildRequest,                *)
(* serializeToReader and serializeToQueryString, together with the parts   *)
(* of net/http, net/url and encoding/json they call.                       *)
(*                                                                         *)
(* Calls are processes.  Every call has its own locals; the only object    *)
(* two calls can share is the RequestOptions value the caller passes by    *)
(* pointer (variable config).                                              *)
(***************************************************************************)
EXTENDS Integers, Sequences, FiniteSets, TLC

\* ------------------------------------------------------------------ bounds
\* Most reads the JSON decoder may need before the response body ends.
MaxChunks == 2

\* ------------------------------------------------------------- Go values
Procs == {1, 2}

Absent == "<absent>"          \* a key that is not in a map
NilClient == "<nil>"          \* (*http.Client)(nil)
DefaultClient == "http.DefaultClient"
CustomClient == "customClient"

\* http.StatusOK and http.StatusMultipleChoices
StatusOK == 200
StatusMultipleChoices == 300

\* ------------------------------------------------ JSON values of a query
\* Scalars are written as their JSON text.
QKeys == {"a", "b", "c"}
KeyOrder == <<"a", "b", "c">>     \* byte order, as sort.Strings orders them

JNull == "null"

\* A Go value stored in RequestOptions.Query, by what json.Marshal makes of
\* it.  kind "nil" is the nil interface; kind "null" a non-nil interface
\* whose encoding is null (a nil pointer or nil map); kind "unsupported" a
\* value json.Marshal rejects (a channel, a func).
QVal(kind, json, fields) == [kind |-> kind, json |-> json, fields |-> fields]
NoFields == [k \in QKeys |-> Absent]
QueryNil == QVal("nil", "", NoFields)
QueryTypedNil == QVal("null", "null", NoFields)
QueryUnsupported == QVal("unsupported", "", NoFields)
QueryArray == QVal("array", "[1,2]", NoFields)
QueryString == QVal("string", "\"x\"", NoFields)
QueryNumber == QVal("number", "1", NoFields)
QueryBool == QVal("bool", "true", NoFields)
Obj(a, b, c) ==
    QVal("object", "", [k \in QKeys |-> IF k = "a" THEN a ELSE IF k = "b" THEN b ELSE c])
QueryObjects ==
    { Obj(a, b, c) : a \in {Absent, "1"},
                     b \in {Absent, JNull},
                     c \in {Absent, "\"x\""} }
    \cup {Obj("1000000", JNull, "\"a b\"")}
QueryValues ==
    {QueryNil, QueryTypedNil, QueryUnsupported, QueryArray, QueryString,
     QueryNumber, QueryBool} \cup QueryObjects

\* fmt.Sprint of the Go value json.Unmarshal stores in a map[string]interface{}:
\* numbers become float64 (%v prints 1e+06 for 1000000), strings lose their
\* quotes, booleans print as true/false.
Sprint(json) ==
    CASE json = "1" -> "1"
      [] json = "1000000" -> "1e+06"
      [] json = "\"x\"" -> "x"
      [] json = "\"a b\"" -> "a b"
      [] json = "true" -> "true"
      [] OTHER -> json

\* url.QueryEscape on the strings that occur.
QueryEscape(s) ==
    CASE s = "a b" -> "a+b"
      [] s = "1e+06" -> "1e%2B06"
      [] OTHER -> s

\* json.Marshal of a query value: [ok, kind of the JSON document, members].
Marshal(v) ==
    IF v.kind = "unsupported"
    THEN [ok |-> FALSE, kind |-> "", fields |-> NoFields]
    ELSE [ok |-> TRUE, kind |-> v.kind, fields |-> v.fields]

\* json.Unmarshal(queryBytes, &queryMap) with queryMap a nil
\* map[string]interface{}: an object fills the map, null leaves the map nil
\* and is no error, every other document is an UnmarshalTypeError.
UnmarshalMap(doc) ==
    CASE doc.kind = "object" -> [ok |-> TRUE, m |-> doc.fields]
      [] doc.kind = "null" -> [ok |-> TRUE, m |-> NoFields]
      [] OTHER -> [ok |-> FALSE, m |-> NoFields]

\* url.Values after the loop of lines 126-130: key -> the one value added.
AddValuesSkipNothing(m) ==
    [k \in QKeys |-> IF m[k] # Absent THEN Sprint(m[k]) ELSE Absent]
AddValues(m) ==
    [k \in QKeys |-> IF m[k] # Absent /\ m[k] # JNull THEN Sprint(m[k]) ELSE Absent]

\* A query string is kept as the sequence of its key=value pairs, in the
\* order they are written; JoinPairs gives its text.
\* url.Values.Encode: the pairs in key order, each escaped.
RECURSIVE EncodePairs(_, _)
EncodePairs(values, i) ==
    IF i > Len(KeyOrder) THEN <<>>
    ELSE LET k == KeyOrder[i]
         IN  (IF values[k] # Absent
              THEN << <<QueryEscape(k), QueryEscape(values[k])>> >>
              ELSE <<>>) \o EncodePairs(values, i + 1)

RECURSIVE JoinPairs(_)
JoinPairs(ps) ==
    IF ps = <<>> THEN ""
    ELSE ps[1][1] \o "=" \o ps[1][2]
         \o (IF Len(ps) > 1 THEN "&" \o JoinPairs(Tail(ps)) ELSE "")

Encode(values) == EncodePairs(values, 1)

\* The error values of the package: the message prefix of fmt.Errorf, the
\* wrapped cause (%w), and for the status error its two %s arguments.
NoErr == [msg |-> "", cause |-> "", url |-> "", status |-> ""]
Wrap(msg, cause) == [msg |-> msg, cause |-> cause, url |-> "", status |-> ""]

\* serializeToQueryString, lines 113-132.
serializeToQueryStringAcceptAll(query) ==
    [str |-> Encode(AddValues(query.fields)), err |-> NoErr]
serializeToQueryStringKeepNull(query) ==
    IF query.kind = "nil" THEN [str |-> <<>>, err |-> NoErr]
    ELSE LET doc == Marshal(query)
             um == UnmarshalMap(doc)
         IN  IF ~doc.ok
             THEN [str |-> <<>>, err |-> Wrap("failed to serialize query", "json: unsupported type")]
             ELSE IF ~um.ok
             THEN [str |-> <<>>, err |-> Wrap("failed to unmarshal query", "json: cannot unmarshal")]
             ELSE [str |-> Encode(AddValuesSkipNothing(um.m)), err |-> NoErr]
serializeToQueryString(query) ==
    IF query.kind = "nil" THEN [str |-> <<>>, err |-> NoErr]
    ELSE LET doc == Marshal(query)
             um == UnmarshalMap(doc)
         IN  IF ~doc.ok
             THEN [str |-> <<>>, err |-> Wrap("failed to serialize query", "json: unsupported type")]
             ELSE IF ~um.ok
             THEN [str |-> <<>>, err |-> Wrap("failed to unmarshal query", "json: cannot unmarshal")]
             ELSE [str |-> Encode(AddValues(um.m)), err |-> NoErr]

\* --------------------------------------------------------------- headers
HKeys == {"Accept", "X-Id", "x-id"}

\* textproto.CanonicalMIMEHeaderKey, which http.Header.Set applies to its key.
CanonicalMIMEHeaderKey(k) == IF k = "x-id" THEN "X-Id" ELSE k

\* A map[string]string: nil or not, and its entries.
NoHeaders == [k \in HKeys |-> Absent]
NilHeaders == [isNil |-> TRUE, kv |-> NoHeaders]
EmptyHeaders == [isNil |-> FALSE, kv |-> NoHeaders]
Hdr(accept, xid, lxid) ==
    [isNil |-> FALSE,
     kv |-> [k \in HKeys |-> IF k = "Accept" THEN accept ELSE IF k = "X-Id" THEN xid ELSE lxid]]
HeaderMaps ==
    {NilHeaders, EmptyHeaders, Hdr("json", Absent, Absent), Hdr(Absent, Absent, "2"),
     Hdr(Absent, "1", "2")}

HeaderKeys(h) == {k \in HKeys : h.kv[k] # Absent}

\* The orders in which `range options.Headers` may visit the entries.
RangeOrders(h) ==
    LET ks == HeaderKeys(h)
    IN  {s \in [1..Cardinality(ks) -> ks] : \A i, j \in 1..Cardinality(ks) : s[i] = s[j] => i = j}

\* req.Header.Set(key, value), line 88.  req.Header is the raw map of the
\* request, indexed by the keys that are stored in it.
HeaderSetExact(header, key, value) == [header EXCEPT ![key] = value]
HeaderSet(header, key, value) == [header EXCEPT ![CanonicalMIMEHeaderKey(key)] = value]

\* The loop of lines 87-89 in one visiting order.
RECURSIVE ApplyHeaders(_, _, _)
ApplyHeaders(header, order, h) ==
    IF order = <<>> THEN header
    ELSE ApplyHeaders(HeaderSet(header, order[1], h.kv[order[1]]), Tail(order), h)

\* ------------------------------------------------------------------- URLs
Urls == {"http://h/p", "http://h/p?q=0", ":bad"}
NoURL == [base |-> "", RawQuery |-> <<>>]

\* url.Parse inside http.NewRequestWithContext.
ParseURL(u) ==
    CASE u = "http://h/p" -> [ok |-> TRUE, url |-> [base |-> "http://h/p", RawQuery |-> <<>>]]
      [] u = "http://h/p?q=0" -> [ok |-> TRUE, url |-> [base |-> "http://h/p", RawQuery |-> << <<"q", "0">> >>]]
      [] OTHER -> [ok |-> FALSE, url |-> NoURL]

\* (*url.URL).String, used in the status error of line 65.
URLString(u) == u.base \o (IF u.RawQuery = <<>> THEN "" ELSE "?" \o JoinPairs(u.RawQuery))

\* ----------------------------------------------------------------- bodies
NilBody == "<nil>"                 \* the nil interface
NoPayload == "<no body>"           \* a request made with a nil io.Reader
BodyValues == {NilBody, "user", "chan"}
ConfigBodies == {NilBody, "cfgBody"}

\* json.Marshal of a body value; a channel is an unsupported type.
MarshalBody(data) ==
    CASE data = "user" -> [ok |-> TRUE, bytes |-> "{\"name\":\"x\"}"]
      [] data = "cfgBody" -> [ok |-> TRUE, bytes |-> "{\"k\":2}"]
      [] OTHER -> [ok |-> FALSE, bytes |-> ""]

\* serializeToReader, lines 102-111.
serializeToReader(data) ==
    IF data = NilBody THEN [reader |-> NoPayload, err |-> NoErr]
    ELSE LET b == MarshalBody(data)
         IN  IF ~b.ok
             THEN [reader |-> NoPayload, err |-> Wrap("failed to serialize data", "json: unsupported type")]
             ELSE [reader |-> b.bytes, err |-> NoErr]

\* ----------------------------------------------------------- buildRequest
NoReq == [Method |-> "", URL |-> NoURL, Header |-> NoHeaders, Body |-> NoPayload]

\* buildRequest, lines 76-100, with the order in which the runtime ranges
\* over options.Headers.  stages lists the stages that ran, in order.
buildRequestAppendQuery(method, url, body, options, order) ==
    LET rd == serializeToReader(body)
        pu == ParseURL(url)
        q == serializeToQueryString(options.Query)
        req0 == [Method |-> method, URL |-> pu.url,
                 Header |-> ApplyHeaders(NoHeaders, order, options.Headers),
                 Body |-> rd.reader]
    IN  IF rd.err # NoErr
        THEN [req |-> NoReq, err |-> rd.err, stages |-> <<"serializeBody">>]
        ELSE IF ~pu.ok
        THEN [req |-> NoReq, err |-> Wrap("failed to create request", "parse: missing protocol scheme"),
              stages |-> <<"serializeBody", "newRequest">>]
        ELSE IF options.Query.kind = "nil"
        THEN [req |-> req0, err |-> NoErr, stages |-> <<"serializeBody", "newRequest">>]
        ELSE IF q.err # NoErr
        THEN [req |-> NoReq, err |-> q.err,
              stages |-> <<"serializeBody", "newRequest", "serializeQuery">>]
        ELSE [req |-> [req0 EXCEPT !.URL.RawQuery = pu.url.RawQuery \o q.str],
              err |-> NoErr,
              stages |-> <<"serializeBody", "newRequest", "serializeQuery">>]
buildRequest(method, url, body, options, order) ==
    LET rd == serializeToReader(body)
        pu == ParseURL(url)
        q == serializeToQueryString(options.Query)
        req0 == [Method |-> method, URL |-> pu.url,
                 Header |-> ApplyHeaders(NoHeaders, order, options.Headers),
                 Body |-> rd.reader]
    IN  IF rd.err # NoErr
        THEN [req |-> NoReq, err |-> rd.err, stages |-> <<"serializeBody">>]
        ELSE IF ~pu.ok
        THEN [req |-> NoReq, err |-> Wrap("failed to create request", "parse: missing protocol scheme"),
              stages |-> <<"serializeBody", "newRequest">>]
        ELSE IF options.Query.kind = "nil"
        THEN [req |-> req0, err |-> NoErr, stages |-> <<"serializeBody", "newRequest">>]
        ELSE IF q.err # NoErr
        THEN [req |-> NoReq, err |-> q.err,
              stages |-> <<"serializeBody", "newRequest", "serializeQuery">>]
        ELSE [req |-> [req0 EXCEPT !.URL.RawQuery = q.str], err |-> NoErr,
              stages |-> <<"serializeBody", "newRequest", "serializeQuery">>]

\* ---------------------------------------------------------------- state
\* RequestOptions, lines 13-20 (Method and URL are never read).
Options(client, headers, query, body) ==
    [Client |-> client, Headers |-> headers, Query |-> query, Body |-> body]
ZeroOptions == Options(NilClient, NilHeaders, QueryNil, NilBody)   \* &RequestOptions{}

NoResp == [StatusCode |-> 0, Status |-> ""]
NoResult == "<nil>"

\* The status codes a transport answers with, and the status line it puts
\* in Response.Status for each.
Statuses == {199, 200, 299, 300, 404}
StatusLine(code) ==
    CASE code = 199 -> "199 "
      [] code = 200 -> "200 OK"
      [] code = 299 -> "299 "
      [] code = 300 -> "300 Multiple Choices"
      [] code = 404 -> "404 Not Found"
      [] OTHER -> "000"

\* What one Read of the response body lets the decoder see: more of an
\* unfinished value, the end of a value that fits T, the end of a value that
\* does not fit T, a syntax error, or the end of the stream.
Chunks == {"part", "end", "mismatch", "bad", "EOF"}

VARIABLES
    config,      \* the caller's RequestOptions object, passed by pointer
    config0,     \* its value when the caller built it
    args,        \* per call: the entry function and its arguments
    ctx,         \* per call: the context: its kind and its Err()
    pc,          \* per call: the line the call is at
    frame,       \* per call: the parameters of performRequest
    local,       \* per call: the object allocated at line 44
    req,         \* per call: the *http.Request
    transport,   \* per call: the client the request was handed to
    resp,        \* per call: the *http.Response
    scan,        \* per call: the decoder: reads done and whether it was fed
    result,      \* per call: the returned *T
    err,         \* per call: the returned error
    stages,      \* per call: the stages that ran
    submits,     \* per call: calls of Client.Do
    closes,      \* per call: calls of resp.Body.Close
    canceledAt,  \* per call: where the call was when its context ended
    acc          \* accesses to the caller's object: <<call, field, "r"/"w">>

vars == <<config, config0, args, ctx, pc, frame, local, req, transport, resp, scan,
          result, err, stages, submits, closes, canceledAt, acc>>

NoFrame == [method |-> "", url |-> "", body |-> NilBody, options |-> "nil"]
NoArgs == [fn |-> "none", url |-> "", body |-> NilBody, options |-> "nil"]
NoScan == [reads |-> 0, fed |-> FALSE]

\* The options object a call works on: the caller's, or its own.
Opt(p) == IF frame[p].options = "config" THEN config ELSE local[p]

\* Accesses of call p to fields of the caller's object.
Log(p, fields, mode) ==
    IF frame[p].options = "config" THEN acc \cup {<<p, f, mode>> : f \in fields} ELSE acc

\* performRequest entered with the arguments the entry function passes.
Enter(p, method, body) ==
    /\ pc[p] = "idle"
    /\ frame' = [frame EXCEPT ![p] = [method |-> method, url |-> args[p].url,
                                      body |-> body, options |-> args[p].options]]
    /\ pc' = [pc EXCEPT ![p] = "L43"]
    /\ UNCHANGED <<config, config0, args, ctx, local, req, transport, resp, scan,
                   result, err, stages, submits, closes, canceledAt, acc>>

\* Lines 22-40.
Get(p) == args[p].fn = "Get" /\ Enter(p, "GET", NilBody)
Post(p) == args[p].fn = "Post" /\ Enter(p, "POST", args[p].body)
Put(p) == args[p].fn = "Put" /\ Enter(p, "PUT", args[p].body)
Delete(p) == args[p].fn = "Delete" /\ Enter(p, "DELETE", NilBody)
Patch(p) == args[p].fn = "Patch" /\ Enter(p, "PATCH", args[p].body)

\* Lines 43-45: options == nil gets a fresh object.
SubstituteOptions(p) ==
    /\ pc[p] = "L43"
    /\ IF frame[p].options = "nil"
       THEN /\ local' = [local EXCEPT ![p] = ZeroOptions]
            /\ frame' = [frame EXCEPT ![p].options = "local"]
       ELSE UNCHANGED <<local, frame>>
    /\ pc' = [pc EXCEPT ![p] = "L46"]
    /\ UNCHANGED <<config, config0, args, ctx, req, transport, resp, scan,
                   result, err, stages, submits, closes, canceledAt, acc>>

\* Store into a field of the object options points to.
Store(p, o) ==
    IF frame[p].options = "config"
    THEN config' = o /\ UNCHANGED local
    ELSE local' = [local EXCEPT ![p] = o] /\ UNCHANGED config

\* Lines 46-48.
SubstituteClient(p) ==
    /\ pc[p] = "L46"
    /\ IF Opt(p).Client = NilClient
       THEN /\ Store(p, [Opt(p) EXCEPT !.Client = DefaultClient])
            /\ acc' = Log(p, {"Client"}, "r") \cup Log(p, {"Client"}, "w")
       ELSE /\ UNCHANGED <<config, local>>
            /\ acc' = Log(p, {"Client"}, "r")
    /\ pc' = [pc EXCEPT ![p] = "L49"]
    /\ UNCHANGED <<config0, args, ctx, frame, req, transport, resp, scan,
                   result, err, stages, submits, closes, canceledAt>>

\* Lines 49-51.
SubstituteHeaders(p) ==
    /\ pc[p] = "L49"
    /\ IF Opt(p).Headers.isNil
       THEN /\ Store(p, [Opt(p) EXCEPT !.Headers = EmptyHeaders])
            /\ acc' = Log(p, {"Headers"}, "r") \cup Log(p, {"Headers"}, "w")
       ELSE /\ UNCHANGED <<config, local>>
            /\ acc' = Log(p, {"Headers"}, "r")
    /\ pc' = [pc EXCEPT ![p] = "L53"]
    /\ UNCHANGED <<config0, args, ctx, frame, req, transport, resp, scan,
                   result, err, stages, submits, closes, canceledAt>>

\* A return of performRequest: the deferred Close of line 62 runs when it
\* was registered.
RunDeferredNever(n) == n
RunDeferred(n) == n + 1

Return(p, res, e, deferred) ==
    /\ result' = [result EXCEPT ![p] = res]
    /\ err' = [err EXCEPT ![p] = e]
    /\ closes' = [closes EXCEPT ![p] = IF deferred THEN RunDeferred(@) ELSE @]
    /\ pc' = [pc EXCEPT ![p] = "done"]

\* Lines 53-56.
BuildRequestKeepGoing(p) ==
    /\ pc[p] = "L53"
    /\ \E order \in RangeOrders(Opt(p).Headers) :
         LET b == buildRequest(frame[p].method, frame[p].url, frame[p].body, Opt(p), order)
         IN  /\ stages' = [stages EXCEPT ![p] = b.stages]
             /\ acc' = Log(p, {"Headers", "Query"}, "r")
             /\ req' = [req EXCEPT ![p] = b.req]
             /\ err' = [err EXCEPT ![p] = b.err]
             /\ pc' = [pc EXCEPT ![p] = "L58"]
             /\ UNCHANGED <<result, closes>>
    /\ UNCHANGED <<config, config0, args, ctx, frame, local, transport, resp, scan,
                   submits, canceledAt>>
BuildRequest(p) ==
    /\ pc[p] = "L53"
    /\ \E order \in RangeOrders(Opt(p).Headers) :
         LET b == buildRequest(frame[p].method, frame[p].url, frame[p].body, Opt(p), order)
         IN  /\ stages' = [stages EXCEPT ![p] = b.stages]
             /\ acc' = Log(p, {"Headers", "Query"}, "r")
             /\ IF b.err # NoErr
                THEN Return(p, NoResult, b.err, FALSE) /\ UNCHANGED req
                ELSE /\ req' = [req EXCEPT ![p] = b.req]
                     /\ pc' = [pc EXCEPT ![p] = "L58"]
                     /\ UNCHANGED <<result, err, closes>>
    /\ UNCHANGED <<config, config0, args, ctx, frame, local, transport, resp, scan,
                   submits, canceledAt>>

\* Line 58, the call: the request is handed to options.Client.
ClientDo(p) ==
    /\ pc[p] = "L58"
    /\ transport' = [transport EXCEPT ![p] = Opt(p).Client]
    /\ submits' = [submits EXCEPT ![p] = @ + 1]
    /\ stages' = [stages EXCEPT ![p] = Append(@, "do")]
    /\ acc' = Log(p, {"Client"}, "r")
    /\ pc' = [pc EXCEPT ![p] = "Do"]
    /\ UNCHANGED <<config, config0, args, ctx, frame, local, req, resp, scan,
                   result, err, closes, canceledAt>>

\* Client.Do returns a response: the transport answered while the context
\* was live.  Do returns a non-nil response exactly when its error is nil.
TransportRespond(p) ==
    /\ pc[p] = "Do"
    /\ ctx[p].err = ""
    /\ \E code \in Statuses :
         resp' = [resp EXCEPT ![p] = [StatusCode |-> code, Status |-> StatusLine(code)]]
    /\ pc' = [pc EXCEPT ![p] = "L64"]
    /\ UNCHANGED <<config, config0, args, ctx, frame, local, req, transport, scan,
                   result, err, stages, submits, closes, canceledAt, acc>>

\* Client.Do returns an error, lines 59-61: the context's error once the
\* context has ended, a network failure otherwise.
TransportErrorAsDecode(p) ==
    /\ pc[p] = "Do"
    /\ Return(p, NoResult,
              Wrap("failed to decode response",
                   IF ctx[p].err # "" THEN ctx[p].err ELSE "connection refused"),
              FALSE)
    /\ UNCHANGED <<config, config0, args, ctx, frame, local, req, transport, resp, scan,
                   stages, submits, canceledAt, acc>>
TransportError(p) ==
    /\ pc[p] = "Do"
    /\ Return(p, NoResult,
              Wrap("failed to execute request",
                   IF ctx[p].err # "" THEN ctx[p].err ELSE "connection refused"),
              FALSE)
    /\ UNCHANGED <<config, config0, args, ctx, frame, local, req, transport, resp, scan,
                   stages, submits, canceledAt, acc>>

\* Line 64.
StatusFailsOffByOne(code) == code < StatusOK \/ code > StatusMultipleChoices
StatusFails(code) == code < StatusOK \/ code >= StatusMultipleChoices

\* Line 65.
StatusError(rq, rs) ==
    [msg |-> "request %s failed with status: %s", cause |-> "",
     url |-> URLString(rq.URL), status |-> rs.Status]

\* Lines 62-66: the Close is deferred, then the status is validated.
ValidateStatus(p) ==
    /\ pc[p] = "L64"
    /\ stages' = [stages EXCEPT ![p] = Append(@, "status")]
    /\ IF StatusFails(resp[p].StatusCode)
       THEN Return(p, NoResult, StatusError(req[p], resp[p]), TRUE)
       ELSE /\ pc' = [pc EXCEPT ![p] = "L69"]
            /\ UNCHANGED <<result, err, closes>>
    /\ UNCHANGED <<config, config0, args, ctx, frame, local, req, transport, resp, scan,
                   submits, canceledAt, acc>>

\* Lines 68-73: json.NewDecoder(resp.Body).Decode(&result), one Read of the
\* body at a time.  A Read after the context ended fails with the
\* context's error; the decoder stops reading once a value is complete.
DecodeError(cause) == Wrap("failed to decode response", cause)

Decode(p) ==
    /\ pc[p] = "L69"
    /\ stages' = [stages EXCEPT ![p] = IF scan[p].fed THEN @ ELSE Append(@, "decode")]
    /\ scan' = [scan EXCEPT ![p] = [reads |-> @.reads + 1, fed |-> TRUE]]
    /\ IF ctx[p].err # ""
       THEN Return(p, NoResult, DecodeError(ctx[p].err), TRUE)
       ELSE \E chunk \in Chunks :
              CASE chunk = "part" ->
                     /\ scan[p].reads + 1 < MaxChunks
                     /\ UNCHANGED <<result, err, closes, pc>>
                [] chunk = "end" -> Return(p, "&result", NoErr, TRUE)
                [] chunk = "mismatch" ->
                     Return(p, NoResult, DecodeError("json: cannot unmarshal"), TRUE)
                [] chunk = "bad" ->
                     Return(p, NoResult, DecodeError("invalid character"), TRUE)
                [] OTHER ->
                     Return(p, NoResult,
                            DecodeError(IF scan[p].reads = 0 THEN "EOF" ELSE "unexpected EOF"),
                            TRUE)
    /\ UNCHANGED <<config, config0, args, ctx, frame, local, req, transport, resp,
                   submits, canceledAt, acc>>

\* The caller cancels the context, or its deadline passes, while the call
\* is pending or running.
Cancel(p) ==
    /\ pc[p] \notin {"off", "done"}
    /\ ctx[p].kind # "background"
    /\ ctx[p].err = ""
    /\ ctx' = [ctx EXCEPT ![p].err = IF ctx[p].kind = "withCancel" THEN "context canceled"
                                     ELSE "context deadline exceeded"]
    /\ canceledAt' = [canceledAt EXCEPT ![p] = pc[p]]
    /\ UNCHANGED <<config, config0, args, pc, frame, local, req, transport, resp, scan,
                   result, err, stages, submits, closes, acc>>

\* ------------------------------------------------------- specifications
Clients == {NilClient, CustomClient}
Configs ==
    { Options(c, h, q, b) : c \in Clients, h \in HeaderMaps, q \in QueryValues,
                            b \in ConfigBodies }

\* The calls a caller can write: Get and Delete take no body.
CallArgs ==
    { [fn |-> "Post", url |-> u, body |-> b, options |-> o] :
        u \in Urls, b \in BodyValues, o \in {"nil", "config"} }
    \cup
    { [fn |-> f, url |-> u, body |-> "user", options |-> o] :
        f \in {"Put", "Patch"}, u \in Urls, o \in {"nil", "config"} }
    \cup
    { [fn |-> f, url |-> u, body |-> NilBody, options |-> o] :
        f \in {"Get", "Delete"}, u \in Urls, o \in {"nil", "config"} }

CtxKinds == {"background", "withCancel", "withDeadline"}

InitRest ==
    /\ config0 = config
    /\ pc = [p \in Procs |-> IF args[p].fn = "none" THEN "off" ELSE "idle"]
    /\ frame = [p \in Procs |-> NoFrame]
    /\ local = [p \in Procs |-> ZeroOptions]
    /\ req = [p \in Procs |-> NoReq]
    /\ transport = [p \in Procs |-> NilClient]
    /\ resp = [p \in Procs |-> NoResp]
    /\ scan = [p \in Procs |-> NoScan]
    /\ result = [p \in Procs |-> NoResult]
    /\ err = [p \in Procs |-> NoErr]
    /\ stages = [p \in Procs |-> <<>>]
    /\ submits = [p \in Procs |-> 0]
    /\ closes = [p \in Procs |-> 0]
    /\ canceledAt = [p \in Procs |-> "never"]
    /\ acc = {}

\* One call, with every combination of arguments and options.
Init ==
    /\ \E a \in CallArgs : args = [p \in Procs |-> IF p = 1 THEN a ELSE NoArgs]
    /\ config \in (IF args[1].options = "config" THEN Configs ELSE {ZeroOptions})
    /\ \E k \in CtxKinds : ctx = [p \in Procs |-> [kind |-> IF p = 1 THEN k ELSE "background", err |-> ""]]
    /\ InitRest

Next ==
    \E p \in Procs :
        \/ Get(p) \/ Post(p) \/ Put(p) \/ Delete(p) \/ Patch(p)
        \/ SubstituteOptions(p) \/ SubstituteClient(p) \/ SubstituteHeaders(p)
        \/ BuildRequest(p) \/ ClientDo(p)
        \/ TransportRespond(p) \/ TransportError(p)
        \/ ValidateStatus(p) \/ Decode(p)
        \/ Cancel(p)

Spec == Init /\ [][Next]_vars

\* Two concurrent calls that were given the same options object.
ConcArgs(fns) ==
    { [fn |-> f, url |-> "http://h/p", body |-> IF f \in {"Get", "Delete"} THEN NilBody ELSE "user",
       options |-> "config"] : f \in fns }
ConcConfigs ==
    { Options(c, h, QueryNil, NilBody) : c \in Clients, h \in {NilHeaders, Hdr("json", Absent, Absent)} }

InitConc ==
    /\ \E a \in ConcArgs({"Get", "Post", "Put"}), b \in ConcArgs({"Delete", "Patch"}) :
         args = [p \in Procs |-> IF p = 1 THEN a ELSE b]
    /\ config \in ConcConfigs
    /\ ctx = [p \in Procs |-> [kind |-> IF p = 1 THEN "withCancel" ELSE "background", err |-> ""]]
    /\ InitRest

SpecConc == InitConc /\ [][Next]_vars

\* ------------------------------------------------------------- properties
Range(f) == {f[i] : i \in DOMAIN f}
IsPrefix(a, b) == Len(a) <= Len(b) /\ SubSeq(b, 1, Len(a)) = a

StatusMsg == "request %s failed with status: %s"
QueryErrMsgs == {"failed to serialize query", "failed to unmarshal query"}

\* The stage an error names.
ErrStage(e) ==
    CASE e.msg = "failed to serialize data" -> "serializeBody"
      [] e.msg = "failed to create request" -> "newRequest"
      [] e.msg \in QueryErrMsgs -> "serializeQuery"
      [] e.msg = "failed to execute request" -> "do"
      [] e.msg = StatusMsg -> "status"
      [] e.msg = "failed to decode response" -> "decode"
      [] OTHER -> "none"

\* C1: when the transport returned a response, the call succeeds only with
\* 200 <= status < 300; with any other status it returns the status error
\* carrying the request URL and that status, returns no result, and the
\* body is never given to the JSON decoder.
C1_NonSuccessStatusFails ==
    \A p \in Procs :
        resp[p] # NoResp =>
            LET code == resp[p].StatusCode
                bad == ~(200 <= code /\ code < 300)
            IN  /\ bad => ~scan[p].fed /\ result[p] = NoResult
                /\ (pc[p] = "done" /\ bad) =>
                       /\ err[p].msg = StatusMsg
                       /\ err[p].url = URLString(req[p].URL)
                       /\ err[p].status = resp[p].Status
                /\ (pc[p] = "done" /\ err[p] = NoErr) => ~bad

C1_Witness ==
    \E p \in Procs :
        /\ pc[p] = "done"
        /\ resp[p].StatusCode = 300
        /\ err[p].msg = StatusMsg
        /\ err[p].status = "300 Multiple Choices"
        /\ err[p].url = "http://h/p?a=1"

\* C2: the stages run in the order serialize body, construct request,
\* serialize query, submit, validate status, decode; a call ends with a
\* result and no error, or with no result and the error of the first stage
\* that failed; nothing runs after a failure; the transport is submitted to
\* at most once, and not at all when building the request fails.
LegalOrders ==
    { <<"serializeBody", "newRequest", "serializeQuery", "do", "status", "decode">>,
      <<"serializeBody", "newRequest", "do", "status", "decode">> }

C2_StagesInOrderOneOutcome ==
    \A p \in Procs :
        /\ \E o \in LegalOrders : IsPrefix(stages[p], o)
        /\ submits[p] <= 1
        /\ (submits[p] = 1) <=> ("do" \in Range(stages[p]))
        /\ err[p] # NoErr =>
               /\ pc[p] = "done"
               /\ result[p] = NoResult
               /\ ErrStage(err[p]) = stages[p][Len(stages[p])]
               /\ ErrStage(err[p]) \in {"serializeBody", "newRequest", "serializeQuery"}
                      => submits[p] = 0
        /\ result[p] # NoResult =>
               /\ pc[p] = "done"
               /\ err[p] = NoErr
               /\ stages[p] \in LegalOrders
        /\ pc[p] = "done" => (result[p] # NoResult \/ err[p] # NoErr)

C2_Witness ==
    \E p \in Procs :
        /\ pc[p] = "done"
        /\ result[p] # NoResult
        /\ stages[p] = <<"serializeBody", "newRequest", "serializeQuery", "do", "status", "decode">>
        /\ submits[p] = 1

\* C3: when the transport returned a response its body is closed exactly
\* once by the time the call returns, on the status-error, decode-error
\* and success paths alike; when the transport returned an error no body
\* is closed.
C3_BodyClosedOnce ==
    \A p \in Procs :
        /\ closes[p] <= 1
        /\ (pc[p] = "done" /\ resp[p] # NoResp) => closes[p] = 1
        /\ resp[p] = NoResp => closes[p] = 0

C3_Witness ==
    \E p \in Procs :
        /\ pc[p] = "done"
        /\ resp[p] # NoResp
        /\ err[p].msg = "failed to decode response"
        /\ closes[p] = 1

\* C4: a call never writes to the options object its caller supplied, so
\* two calls given the same object never touch a field one of them writes.
C4_ConfigNeverWritten ==
    /\ config = config0
    /\ \A a, b \in acc : (a[1] # b[1] /\ a[2] = b[2]) => (a[3] = "r" /\ b[3] = "r")

\* C5: the payload of the request is the JSON of the explicit body argument
\* when there is one; without one it is the JSON of config.Body; it is
\* absent only when both are absent.
C5_PayloadFromBodyOrConfig ==
    \A p \in Procs :
        req[p] # NoReq =>
            req[p].Body = IF frame[p].body # NilBody THEN MarshalBody(frame[p].body).bytes
                          ELSE IF Opt(p).Body # NilBody THEN MarshalBody(Opt(p).Body).bytes
                          ELSE NoPayload

BeforeResponse == {"idle", "L43", "L46", "L49", "L53", "L58", "Do"}

PairsOf(q, k) == {i \in DOMAIN q : q[i][1] = k}

C7_OnePairPerNonNullKey ==
    \A p \in Procs :
        (req[p] # NoReq /\ Opt(p).Query.kind = "object") =>
            LET q == req[p].URL.RawQuery
                f == Opt(p).Query.fields
            IN  /\ \A k \in QKeys :
                       IF f[k] \in {Absent, JNull}
                       THEN PairsOf(q, k) = {}
                       ELSE /\ Cardinality(PairsOf(q, k)) = 1
                            /\ \A i \in PairsOf(q, k) : q[i][2] = QueryEscape(Sprint(f[k]))
                /\ \A i \in DOMAIN q : q[i][1] \in QKeys
                /\ Opt(p).Query = Obj("1", JNull, "\"x\"") => JoinPairs(q) = "a=1&c=x"

C7_Witness ==
    \E p \in Procs :
        /\ req[p] # NoReq
        /\ Opt(p).Query = Obj("1", JNull, "\"x\"")
        /\ JoinPairs(req[p].URL.RawQuery) = "a=1&c=x"

\* C8, as stated: a non-nil query whose JSON is an array or a scalar
\* (string, number, boolean, null) makes a call that gets as far as the
\* query fail with the query-serialization error, with no result and the
\* transport never invoked.
ReachedQuery(p) ==
    /\ pc[p] = "done"
    /\ Len(stages[p]) >= 2
    /\ ErrStage(err[p]) # "newRequest"

C8_NonObjectQueryFails ==
    \A p \in Procs :
        (ReachedQuery(p) /\ Opt(p).Query.kind \in {"array", "string", "number", "bool", "null"}) =>
            /\ err[p].msg \in QueryErrMsgs
            /\ result[p] = NoResult
            /\ submits[p] = 0

\* C8, amended: that holds for arrays, strings, numbers and booleans; a
\* non-nil query whose JSON is null is accepted and gives the empty query
\* string.
C8_ArrayOrScalarQueryFails ==
    \A p \in Procs :
        /\ (ReachedQuery(p) /\ Opt(p).Query.kind \in {"array", "string", "number", "bool"}) =>
               /\ err[p].msg = "failed to unmarshal query"
               /\ result[p] = NoResult
               /\ submits[p] = 0
               /\ req[p] = NoReq
        /\ (Opt(p).Query.kind \in {"array", "string", "number", "bool"}) => submits[p] = 0
        /\ (ReachedQuery(p) /\ Opt(p).Query.kind = "null") =>
               /\ err[p].msg \notin QueryErrMsgs
               /\ req[p] # NoReq
               /\ req[p].URL.RawQuery = <<>>
               /\ submits[p] = 1

C8_Witness ==
    \E p \in Procs :
        /\ pc[p] = "done"
        /\ Opt(p).Query = QueryArray
        /\ stages[p] = <<"serializeBody", "newRequest", "serializeQuery">>
        /\ err[p].msg = "failed to unmarshal query"
        /\ submits[p] = 0

\* C9, as stated: every entry (k, v) of config.Headers is carried under
\* exactly the key k with value v, keys that differ only in letter case
\* included.
C9_HeadersByExactKey ==
    \A p \in Procs :
        req[p] # NoReq =>
            \A k \in HeaderKeys(Opt(p).Headers) : req[p].Header[k] = Opt(p).Headers.kv[k]

\* C9, amended: every entry (k, v) is carried under the canonical form of
\* k; the value is v when no other key of the mapping has that canonical
\* form, and otherwise the value of one of the keys that share it; the
\* request has no other header.
SameHeader(h, k) == {j \in HeaderKeys(h) : CanonicalMIMEHeaderKey(j) = CanonicalMIMEHeaderKey(k)}

C9_HeadersByCanonicalKey ==
    \A p \in Procs :
        req[p] # NoReq =>
            LET h == Opt(p).Headers
            IN  /\ \A k \in HeaderKeys(h) :
                       /\ req[p].Header[CanonicalMIMEHeaderKey(k)] \in {h.kv[j] : j \in SameHeader(h, k)}
                       /\ SameHeader(h, k) = {k} => req[p].Header[CanonicalMIMEHeaderKey(k)] = h.kv[k]
                /\ \A c \in HKeys :
                       req[p].Header[c] # Absent =>
                           \E k \in HeaderKeys(h) : CanonicalMIMEHeaderKey(k) = c

C9_Witness ==
    \E p \in Procs :
        /\ req[p] # NoReq
        /\ Opt(p).Headers = Hdr(Absent, "1", "2")
        /\ req[p].Header["X-Id"] = "2"
        /\ req[p].Header["x-id"] = Absent

\* C10: a non-nil config.Query that serializes replaces the query string of
\* the url argument by its own encoding (the empty string for an empty or
\* all-null object); with a nil config.Query the query string of the url
\* argument is sent as it is.
C10_QueryReplacesUrlQuery ==
    \A p \in Procs :
        req[p] # NoReq =>
            LET q == req[p].URL.RawQuery
                f == Opt(p).Query.fields
            IN  IF Opt(p).Query.kind = "nil"
                THEN JoinPairs(q) = (IF frame[p].url = "http://h/p?q=0" THEN "q=0" ELSE "")
                ELSE /\ \A i \in DOMAIN q : q[i][1] # "q"
                     /\ Len(q) = Cardinality({k \in QKeys : f[k] \notin {Absent, JNull}})
                     /\ (\A k \in QKeys : f[k] \in {Absent, JNull}) => JoinPairs(q) = ""

C10_Witness ==
    \E p \in Procs :
        /\ req[p] # NoReq
        /\ frame[p].url = "http://h/p?q=0"
        /\ Opt(p).Query = Obj("1", Absent, Absent)
        /\ URLString(req[p].URL) = "http://h/p?a=1"

====
